---- MODULE Spec2Model ----
(***************************************************************************)
(* Model of "lab 1/src/main.rs": the LabApp struct and its eframe::App     *)
(* update handler.  One step of the model is one frame, i.e. one complete  *)
(* call of LabApp::update with the inputs that frame receives (which       *)
(* buttons report a click, what CoInitializeEx / WMIConnection /           *)
(* wmi_con.query return, and the iteration order of the HashMap).          *)
(*                                                                         *)
(* The interface strings of the program are Cyrillic; the module language  *)
(* is ASCII only, so every literal is written in English translation and   *)
(* the original is identified by its source line in the comments.          *)
(***************************************************************************)
EXTENDS Integers, Sequences, FiniteSets, TLC

VARIABLES
    com_lib,      \* LabApp.com_lib     : Option<COMLibrary>
    wmi_con,      \* LabApp.wmi_con     : Option<WMIConnection>
    env_vars,     \* LabApp.env_vars    : Vec<String>
    sid_counts,   \* LabApp.sid_counts  : Vec<String>
    bus_info,     \* LabApp.bus_info    : Vec<String>
    active_data,  \* LabApp.active_data : ActiveData
    ui,           \* what the last frame drew (the egui widgets of update)
    frame,        \* what the last frame received and did: the result of init_wmi
                  \* if called, the buttons clicked, those of them whose list
                  \* held entries before, the query results, the classes queried
    last_clicked, \* history: the button that reported the latest click
    connections   \* history: number of WMIConnection values ever created

vars == <<com_lib, wmi_con, env_vars, sid_counts, bus_info, active_data,
          ui, frame, last_clicked, connections>>

----------------------------------------------------------------------------
(* Bounds of the model *)

\* longest result (number of rows) a query returns
MaxRows == 2

----------------------------------------------------------------------------
(* Values *)

\* Option<T> is a sequence of length at most one: <<>> is None, <<v>> is Some(v)
None == <<>>

Some(v) == <<v>>

\* enum ActiveData, main.rs:17-24; the derived Default is None
ActiveData == {"None", "EnvVars", "SidCounts", "BusInfo"}

\* the three buttons of update, in the order update lays them out
\* (main.rs:83 "Environment variables", :101 "SID statistics", :123 "Bus information")
Buttons == <<"EnvVars", "SidCounts", "BusInfo">>

ButtonSet == {Buttons[i] : i \in 1..Len(Buttons)}

\* the WMI class a category's row type is renamed to (serde rename attributes)
ClassOf(b) ==
    CASE b = "EnvVars"   -> "Win32_Environment"
      [] b = "SidCounts" -> "Win32_Account"
      [] b = "BusInfo"   -> "Win32_PnPEntity"

\* struct Win32Environment
Win32Environment == [Name : {"PATH", "TEMP"}, VariableValue : {"C:/bin"}]

\* struct Win32Account; SIDType is a u8
SidTypes == {1, 2}

Win32Account == [SIDType : SidTypes, Caption : {"acct"}]

\* struct Win32Bus
Win32Bus == [DeviceID : {"USB/1", "PCI/2"}, Status : {"OK"}]

RowType(b) ==
    CASE b = "EnvVars"   -> Win32Environment
      [] b = "SidCounts" -> Win32Account
      [] b = "BusInfo"   -> Win32Bus

\* HRESULTs CoInitializeEx can return: S_OK, S_FALSE (already initialised on
\* this thread), RPC_E_CHANGED_MODE (0x80010106 as i32)
HResults == {0, 1, -2147417850}

\* wmi::WMIError values: the HResultError built at main.rs:54-56 and the
\* errors the wmi crate returns from with_namespace_path and query
HResultError(h) == [kind |-> "HResultError", hres |-> h]

\* WBEM_E_ACCESS_DENIED, WBEM_E_INVALID_CLASS as i32
WmiFailures == {HResultError(-2147217405), HResultError(-2147217392)}

\* Result<T, WMIError>
Ok(v) == [ok |-> TRUE, value |-> v]

Err(e) == [ok |-> FALSE, error |-> e]

SeqsUpTo(S, n) == UNION {[1..k -> S] : k \in 0..n}

\* the results wmi_con.query::<T>() can give for the row type of button b
QueryResults(b) ==
    {Ok(rows) : rows \in SeqsUpTo(RowType(b), MaxRows)} \cup {Err(e) : e \in WmiFailures}

\* the two shortest of them: no rows, and one failure
ShortResults(b) == {Ok(<<>>), Err(CHOOSE e \in WmiFailures : TRUE)}

\* the results WMIConnection::with_namespace_path can give; the connection
\* itself is identified by the number of connections created so far
ConnectResults == {Ok("connection")} \cup {Err(e) : e \in WmiFailures}

\* all orders in which a HashMap<u8, _> may iterate its keys
Orders(S) == {o \in [1..Cardinality(S) -> S] : \A i, j \in DOMAIN o : o[i] = o[j] => i = j}

\* the order recorded for a frame that builds no HashMap
AnOrder == CHOOSE o \in Orders(SidTypes) : TRUE

----------------------------------------------------------------------------
(* Formatting *)

\* Display of a WMIError, the "{e}" of main.rs:76, 95, 117, 137
Display(e) == "HRESULT Call failed with: " \o ToString(e.hres)

\* main.rs:76 format!("WMI initialisation error: {e}")
FormatInitError(e) == "WMI initialisation error: " \o Display(e)

\* main.rs:95, 117, 137 format!("Error: {e}")
FormatQueryError(e) == "Error: " \o Display(e)

\* main.rs:91 format!("{}: {}", env.Name, env.VariableValue)
FormatEnv(env) == env.Name \o ": " \o env.VariableValue

\* main.rs:113 format!("Type {}: {}", k, v)
FormatSid(k, v) == "Type " \o ToString(k) \o ": " \o ToString(v)

\* main.rs:132 format!("ID: {}, Status: {}", bus.DeviceID, bus.Status)
FormatBus(bus) == "ID: " \o bus.DeviceID \o ", Status: " \o bus.Status


----------------------------------------------------------------------------
(* The application state as one value, so that update can be written as    *)
(* the composition of its parts.  queries and unconnected record the calls *)
(* a frame makes: the classes queried, and whether a click found wmi_con   *)
(* to be None (the implicit else of "if let Some(wmi_con)").               *)

Self ==
    [com_lib |-> com_lib, wmi_con |-> wmi_con, env_vars |-> env_vars,
     sid_counts |-> sid_counts, bus_info |-> bus_info,
     active_data |-> active_data, connections |-> connections,
     queries |-> <<>>, unconnected |-> FALSE]

\* LabApp::default(): every Option None, every Vec empty, ActiveData::None
Default ==
    [com_lib |-> None, wmi_con |-> None, env_vars |-> <<>>,
     sid_counts |-> <<>>, bus_info |-> <<>>, active_data |-> "None"]

\* LabApp::init_wmi, main.rs:48-66.  hres is what CoInitializeEx returns,
\* con what WMIConnection::with_namespace_path returns.
init_wmi(self, hres, con) ==
    IF hres < 0
    THEN [self |-> self, result |-> Err(HResultError(hres))]
    ELSE LET s1 == [self EXCEPT !.com_lib = Some("COMLibrary")]
         IN  IF con.ok
             THEN [self   |-> [s1 EXCEPT !.wmi_con = Some(self.connections + 1),
                                         !.connections = self.connections + 1],
                   result |-> Ok("unit")]
             ELSE [self |-> s1, result |-> Err(con.error)]

\* a variant of Counts that starts every count at one: or_insert(1)
Counts_FromOne(accounts) ==
    [k \in {accounts[i].SIDType : i \in 1..Len(accounts)} |->
        1 + Cardinality({i \in 1..Len(accounts) : accounts[i].SIDType = k})]

\* the counting of main.rs:107-110: a HashMap from SIDType to occurrences
Counts(accounts) ==
    [k \in {accounts[i].SIDType : i \in 1..Len(accounts)} |->
        Cardinality({i \in 1..Len(accounts) : accounts[i].SIDType = k})]

\* main.rs:111-114: the entries of counts in the map's iteration order
SidEntries(counts, order) ==
    LET keys == SelectSeq(order, LAMBDA k : k \in DOMAIN counts)
    IN  [i \in 1..Len(keys) |-> FormatSid(keys[i], counts[keys[i]])]

\* what a successful query stores in the list of button b: main.rs:89-92,
\* 107-114, 129-134 (iter().map(..).collect() keeps the order of the rows)
Collected(b, rows, order) ==
    CASE b = "EnvVars"   -> [i \in 1..Len(rows) |-> FormatEnv(rows[i])]
      [] b = "SidCounts" -> SidEntries(Counts(rows), order)
      [] b = "BusInfo"   -> [i \in 1..Len(rows) |-> FormatBus(rows[i])]

ListOf(self, b) ==
    CASE b = "EnvVars"   -> self.env_vars
      [] b = "SidCounts" -> self.sid_counts
      [] b = "BusInfo"   -> self.bus_info

\* a variant of WithList that empties the two other lists as well
WithList_ClearOthers(self, b, list) ==
    CASE b = "EnvVars"   ->
             [self EXCEPT !.env_vars = list, !.sid_counts = <<>>, !.bus_info = <<>>]
      [] b = "SidCounts" ->
             [self EXCEPT !.sid_counts = list, !.env_vars = <<>>, !.bus_info = <<>>]
      [] b = "BusInfo"   ->
             [self EXCEPT !.bus_info = list, !.env_vars = <<>>, !.sid_counts = <<>>]

\* the assignment to (clear of, push onto) the list of button b
WithList(self, b, list) ==
    CASE b = "EnvVars"   -> [self EXCEPT !.env_vars = list]
      [] b = "SidCounts" -> [self EXCEPT !.sid_counts = list]
      [] b = "BusInfo"   -> [self EXCEPT !.bus_info = list]

\* a variant of OnClick without the clear() of the list
OnClick_NoClear(self, b, q, order) ==
    LET s2 == [self EXCEPT !.active_data = b]
    IN  IF s2.wmi_con # None
        THEN LET s3 == [s2 EXCEPT !.queries = Append(@, ClassOf(b))]
             IN  IF q.ok
                 THEN WithList(s3, b, Collected(b, q.value, order))
                 ELSE WithList(s3, b, Append(ListOf(s3, b), FormatQueryError(q.error)))
        ELSE [s2 EXCEPT !.unconnected = TRUE]

\* a variant of OnClick that extends the list with the new entries instead
\* of replacing it
OnClick_Extend(self, b, q, order) ==
    LET s2 == [self EXCEPT !.active_data = b]
    IN  IF s2.wmi_con # None
        THEN LET s3 == [s2 EXCEPT !.queries = Append(@, ClassOf(b))]
             IN  IF q.ok
                 THEN WithList(s3, b, ListOf(s3, b) \o Collected(b, q.value, order))
                 ELSE WithList(s3, b, <<FormatQueryError(q.error)>>)
        ELSE [s2 EXCEPT !.unconnected = TRUE]

\* a variant of OnClick that repeats a failed query once
OnClick_Retry(self, b, q, order) ==
    LET s1 == [self EXCEPT !.active_data = b]
        s2 == WithList(s1, b, <<>>)
    IN  IF s2.wmi_con # None
        THEN LET s3 == [s2 EXCEPT !.queries = Append(@, ClassOf(b))]
             IN  IF q.ok
                 THEN WithList(s3, b, Collected(b, q.value, order))
                 ELSE WithList([s3 EXCEPT !.queries = Append(@, ClassOf(b))], b,
                               Append(ListOf(s3, b), FormatQueryError(q.error)))
        ELSE [s2 EXCEPT !.unconnected = TRUE]

\* the body of one "if ui.button(..).clicked()" block: main.rs:84-98 for
\* EnvVars, 102-120 for SidCounts, 124-140 for BusInfo
OnClick(self, b, q, order) ==
    LET s1 == [self EXCEPT !.active_data = b]
        s2 == WithList(s1, b, <<>>)
    IN  IF s2.wmi_con # None
        THEN LET s3 == [s2 EXCEPT !.queries = Append(@, ClassOf(b))]
             IN  IF q.ok
                 THEN WithList(s3, b, Collected(b, q.value, order))
                 ELSE WithList(s3, b, Append(ListOf(s3, b), FormatQueryError(q.error)))
        ELSE [s2 EXCEPT !.unconnected = TRUE]

\* a variant of Button that resets the selection when its button is not clicked
Button_Reset(self, b, in) ==
    IF b \in in.clicked THEN OnClick(self, b, in.query[b], in.order)
    ELSE [self EXCEPT !.active_data = IF @ = b THEN "None" ELSE @]

\* one button of the horizontal group: the block runs iff the button reports a click
Button(self, b, in) ==
    IF b \in in.clicked THEN OnClick(self, b, in.query[b], in.order) ELSE self

\* main.rs:82-142: the three buttons in layout order
ButtonGroup(self, in) ==
    Button(Button(Button(self, Buttons[1], in), Buttons[2], in), Buttons[3], in)

\* a variant of Results whose SidCounts arm shows the environment list
Results_WrongArm(self) ==
    CASE self.active_data = "EnvVars"   -> [prompt |-> FALSE, labels |-> self.env_vars]
      [] self.active_data = "SidCounts" -> [prompt |-> FALSE, labels |-> self.env_vars]
      [] self.active_data = "BusInfo"   -> [prompt |-> FALSE, labels |-> self.bus_info]
      [] self.active_data = "None"      ->
             [prompt |-> TRUE, labels |-> <<"Choose a category to display data">>]

\* main.rs:148-169: the labels the scroll area shows; prompt tells the label
\* of the ActiveData::None arm (main.rs:167) from the entries of a list
Results(self) ==
    CASE self.active_data = "EnvVars"   -> [prompt |-> FALSE, labels |-> self.env_vars]
      [] self.active_data = "SidCounts" -> [prompt |-> FALSE, labels |-> self.sid_counts]
      [] self.active_data = "BusInfo"   -> [prompt |-> FALSE, labels |-> self.bus_info]
      [] self.active_data = "None"      ->
             [prompt |-> TRUE, labels |-> <<"Choose a category to display data">>]

\* a frame that draws no scroll area
NoResults == [prompt |-> FALSE, labels |-> <<>>]

\* the button that reports the latest click: clicks of one frame are
\* reported in layout order
LatestClick(clicked, before) ==
    IF clicked = {} THEN before
    ELSE Buttons[CHOOSE i \in 1..Len(Buttons) :
                    /\ Buttons[i] \in clicked
                    /\ \A j \in 1..Len(Buttons) : Buttons[j] \in clicked => j <= i]

\* a variant of NeedsInit that tests the COM library instead of the connection
NeedsInit_ComLib(self) == self.com_lib = None

\* a variant of NeedsInit that initialises in every frame
NeedsInit_Always(self) == TRUE

\* main.rs:74 "if self.wmi_con.is_none()"
NeedsInit(self) == self.wmi_con = None

\* a variant of ReturnsEarly that goes on to the buttons after a failure
ReturnsEarly_Never(result) == FALSE

\* main.rs:75-78 "if let Err(e) = self.init_wmi() { ..; return; }"
ReturnsEarly(result) == ~result.ok

\* the frame of update after init_wmi has returned result and left self:
\* main.rs:75-78 when it returns early, main.rs:82-169 otherwise
Draw(self, result, in, needs_init) ==
    IF ReturnsEarly(result)
    THEN [self        |-> self,
          ui          |-> [error   |-> <<FormatInitError(result.error)>>,
                           buttons |-> FALSE,
                           area    |-> FALSE,
                           results |-> NoResults],
          frame       |-> [init |-> IF needs_init THEN Some(result) ELSE None,
                           clicked |-> {}, stale |-> {}, query |-> <<>>,
                           queries |-> <<>>, unconnected |-> FALSE],
          latest      |-> last_clicked]
    ELSE LET s == ButtonGroup(self, in)
         IN  [self    |-> s,
              ui      |-> [error   |-> <<>>,
                           buttons |-> TRUE,
                           area    |-> TRUE,
                           results |-> Results(s)],
              frame   |-> [init |-> IF needs_init THEN Some(result) ELSE None,
                           clicked |-> in.clicked,
                           stale |-> {b \in in.clicked : ListOf(self, b) # <<>>},
                           query |-> in.query, queries |-> s.queries,
                           unconnected |-> s.unconnected],
              latest  |-> LatestClick(in.clicked, last_clicked)]

\* eframe::App::update, main.rs:70-171, for one frame with inputs in
update(in) ==
    \E needs_init \in {NeedsInit(Self)} :
    \E r \in {IF needs_init THEN init_wmi(Self, in.hres, in.con)
                             ELSE [self |-> Self, result |-> Ok("unit")]} :
    \E d \in {Draw(r.self, r.result, in, needs_init)} :
        /\ com_lib' = d.self.com_lib
        /\ wmi_con' = d.self.wmi_con
        /\ env_vars' = d.self.env_vars
        /\ sid_counts' = d.self.sid_counts
        /\ bus_info' = d.self.bus_info
        /\ active_data' = d.self.active_data
        /\ connections' = d.self.connections
        /\ ui' = d.ui
        /\ frame' = d.frame
        /\ last_clicked' = d.latest

----------------------------------------------------------------------------
(* Inputs of a frame *)

\* query results for exactly the buttons that report a click, the result
\* of button b drawn from results[b]
QueryInputs(clicked, results) ==
    LET Answers(b) == IF b \in clicked THEN results[b] ELSE {None}
    IN  {[b \in clicked |-> CASE b = "EnvVars"   -> e
                              [] b = "SidCounts" -> a
                              [] b = "BusInfo"   -> d] :
            e \in Answers("EnvVars"), a \in Answers("SidCounts"), d \in Answers("BusInfo")}

\* the iteration orders of the HashMap that can be told apart: it is built
\* only from a successful Win32_Account query, and with fewer than two
\* distinct SIDTypes among the accounts every order lists it alike
OrderInputs(q) ==
    IF /\ "SidCounts" \in DOMAIN q
       /\ q["SidCounts"].ok
       /\ Cardinality({q["SidCounts"].value[i].SIDType :
                          i \in DOMAIN q["SidCounts"].value}) > 1
    THEN Orders(SidTypes) ELSE {AnOrder}

\* CoInitializeEx and with_namespace_path answer freely while no connection
\* exists; on a thread that holds a connection COM is initialised already
\* (S_FALSE) and connecting succeeds
InitInputs ==
    IF wmi_con = None THEN HResults \X ConnectResults ELSE {<<1, Ok("connection")>>}

Input(init, clicked, query, order) ==
    [hres |-> init[1], con |-> init[2], clicked |-> clicked, query |-> query,
     order |-> order]

Init ==
    /\ com_lib = Default.com_lib
    /\ wmi_con = Default.wmi_con
    /\ env_vars = Default.env_vars
    /\ sid_counts = Default.sid_counts
    /\ bus_info = Default.bus_info
    /\ active_data = Default.active_data
    /\ connections = 0
    /\ ui = [error |-> <<>>, buttons |-> FALSE, area |-> FALSE, results |-> NoResults]
    /\ frame = [init |-> None, clicked |-> {}, stale |-> {}, query |-> <<>>,
                queries |-> <<>>, unconnected |-> FALSE]
    /\ last_clicked = "None"

\* a frame in which no button reports a click
IdleFrame ==
    \E init \in InitInputs : update(Input(init, {}, <<>>, AnOrder))

\* a frame in which exactly the button b reports a click
ClickFrame(b) ==
    \E init \in InitInputs, q \in QueryInputs({b}, [c \in ButtonSet |-> QueryResults(c)]) :
        \E o \in OrderInputs(q) : update(Input(init, {b}, q, o))

\* a frame in which several buttons report a click (a pointer click on one
\* and a keyboard or accessibility activation of another); each query of
\* such a frame is given one of its two short results
MultiClickFrame ==
    \E clicked \in {c \in SUBSET ButtonSet : Cardinality(c) > 1} :
        \E init \in InitInputs, q \in QueryInputs(clicked, [b \in ButtonSet |-> ShortResults(b)]) :
            \E o \in OrderInputs(q) : update(Input(init, clicked, q, o))

Next ==
    \/ IdleFrame
    \/ \E b \in ButtonSet : ClickFrame(b)
    \/ MultiClickFrame

Spec == Init /\ [][Next]_vars

----------------------------------------------------------------------------
(* Properties *)

\* the three result lists by category
Lists == [EnvVars |-> env_vars, SidCounts |-> sid_counts, BusInfo |-> bus_info]

\* the last frame clicked b and its query succeeded / failed
Succeeded(b) == b \in frame.clicked /\ frame.query[b].ok

Failed(b) == b \in frame.clicked /\ ~frame.query[b].ok

\* C1: once a button has been clicked every frame draws the result area, and
\* the labels in it are the entries of the list of the category clicked most
\* recently; the placeholder prompt is drawn only while no button has ever
\* been clicked.
C1_ShownListIsLastClicked ==
    /\ last_clicked # "None" =>
          /\ ui.area
          /\ ~ui.results.prompt
          /\ ui.results.labels = Lists[last_clicked]
    /\ ui.results.prompt => last_clicked = "None"

\* C1 witness: the SID list is shown after earlier clicks filled the two others
C1_Witness ==
    /\ last_clicked = "SidCounts"
    /\ ui.area
    /\ Len(sid_counts) = 2
    /\ ui.results.labels = sid_counts
    /\ env_vars # <<>>
    /\ bus_info # <<>>

\* C2: after a click whose query failed, the list of the clicked category is
\* exactly the one error message of that query, whatever it held before.
C2_FailureLeavesOneErrorEntry ==
    \A b \in ButtonSet :
        Failed(b) =>
            /\ Len(Lists[b]) = 1
            /\ Lists[b][1] = "Error: " \o Display(frame.query[b].error)

\* C2 witness: a failed query on each kind of list that held entries before
C2_Witness ==
    /\ Failed("BusInfo")
    /\ "BusInfo" \in frame.stale
    /\ Len(bus_info) = 1

\* C3: after a click whose query succeeded, the list holds the formatted
\* entries of the rows of that query and nothing else: for EnvVars and BusInfo
\* one entry per row in row order, for SidCounts one entry per SIDType that
\* occurs.
C3_SuccessReplacesList ==
    /\ Succeeded("EnvVars") =>
          LET rows == frame.query["EnvVars"].value
          IN  /\ Len(env_vars) = Len(rows)
              /\ \A i \in 1..Len(rows) :
                    env_vars[i] = rows[i].Name \o ": " \o rows[i].VariableValue
    /\ Succeeded("BusInfo") =>
          LET rows == frame.query["BusInfo"].value
          IN  /\ Len(bus_info) = Len(rows)
              /\ \A i \in 1..Len(rows) :
                    bus_info[i] = "ID: " \o rows[i].DeviceID \o ", Status: " \o rows[i].Status
    /\ Succeeded("SidCounts") =>
          LET rows  == frame.query["SidCounts"].value
              types == {rows[i].SIDType : i \in 1..Len(rows)}
          IN  /\ Len(sid_counts) = Cardinality(types)
              /\ \A i \in 1..Len(sid_counts) :
                    \E k \in types, v \in 1..Len(rows) :
                        sid_counts[i] = "Type " \o ToString(k) \o ": " \o ToString(v)

\* C3 witness: two different rows replace a list that held entries before
C3_Witness ==
    /\ Succeeded("EnvVars")
    /\ "EnvVars" \in frame.stale
    /\ Len(env_vars) = 2
    /\ env_vars[1] # env_vars[2]

\* C4: a frame that starts without a connection calls init_wmi; a frame
\* whose init_wmi fails shows the initialisation error, draws no buttons and
\* no result area, changes neither active_data nor any list and leaves the
\* connection absent (so the next frame calls init_wmi again); a frame whose
\* init_wmi succeeds draws the buttons and the result area.
C4_InitFailureIsRetried ==
    [][ /\ wmi_con = None => frame'.init # None
        /\ (frame'.init # None /\ ~frame'.init[1].ok) =>
              /\ ui'.error = <<"WMI initialisation error: " \o Display(frame'.init[1].error)>>
              /\ ~ui'.buttons
              /\ ~ui'.area
              /\ active_data' = active_data
              /\ Lists' = Lists
              /\ wmi_con' = None
        /\ (frame'.init # None /\ frame'.init[1].ok) =>
              /\ ui'.error = <<>>
              /\ ui'.buttons
              /\ ui'.area
              /\ wmi_con' # None
      ]_vars

\* C4 witness: CoInitializeEx fails in a frame that follows one in which it
\* had succeeded and connecting had failed, i.e. a second failed attempt
C4_Witness ==
    /\ frame.init # None
    /\ ~frame.init[1].ok
    /\ frame.init[1].error \notin WmiFailures
    /\ com_lib # None
    /\ wmi_con = None
    /\ ui.error # <<>>

\* C5: init_wmi is called only in frames that start without a connection,
\* a connection once stored is the one every later frame has, and at most
\* one connection is ever created.
C5_ConnectionCreatedOnce ==
    [][ /\ frame'.init # None => wmi_con = None
        /\ wmi_con # None => wmi_con' = wmi_con
        /\ connections' <= 1
      ]_vars

\* C5 witness: the connection is still the first one after a failed query
C5_Witness ==
    /\ wmi_con = Some(1)
    /\ frame.init = None
    /\ \E b \in ButtonSet : Failed(b)

\* C6: a frame without a click changes neither active_data nor any list;
\* active_data changes only to a category clicked in that frame and never
\* back to None.
C6_OnlyClicksChangeSelection ==
    [][ /\ frame'.clicked = {} => (active_data' = active_data /\ Lists' = Lists)
        /\ active_data' # active_data => active_data' \in frame'.clicked
        /\ active_data # "None" => active_data' # "None"
      ]_vars

\* C6 witness: a frame without a click while a filled list is selected
C6_Witness ==
    /\ frame.clicked = {}
    /\ frame.init = None
    /\ active_data = "EnvVars"
    /\ env_vars # <<>>

\* C7: a frame issues exactly one query per clicked button, against the
\* class of that button, also when the query fails; a frame without a click
\* issues none.
C7_OneQueryPerClick ==
    /\ Len(frame.queries) = Cardinality(frame.clicked)
    /\ "EnvVars" \in frame.clicked <=>
          \E i \in 1..Len(frame.queries) : frame.queries[i] = "Win32_Environment"
    /\ "SidCounts" \in frame.clicked <=>
          \E i \in 1..Len(frame.queries) : frame.queries[i] = "Win32_Account"
    /\ "BusInfo" \in frame.clicked <=>
          \E i \in 1..Len(frame.queries) : frame.queries[i] = "Win32_PnPEntity"

\* C7 witness: a failed SID query was issued once
C7_Witness ==
    /\ frame.clicked = {"SidCounts"}
    /\ Failed("SidCounts")
    /\ frame.queries = <<"Win32_Account">>

\* C8: a frame changes the list of no category whose button it did not
\* click, whether the queries of the clicked ones succeed or fail.
C8_OtherListsUntouched ==
    [][ \A b \in ButtonSet : b \notin frame'.clicked => Lists'[b] = Lists[b] ]_vars

\* C8 witness: a failed bus query next to two filled lists
C8_Witness ==
    /\ frame.clicked = {"BusInfo"}
    /\ Failed("BusInfo")
    /\ Len(env_vars) = 2
    /\ Len(sid_counts) = 2

\* the count an entry of sid_counts states
StatedCount(entry) ==
    CHOOSE v \in 0..(MaxRows + 1) :
        \E k \in SidTypes : entry = "Type " \o ToString(k) \o ": " \o ToString(v)

RECURSIVE SumOfCounts(_)
SumOfCounts(entries) ==
    IF entries = <<>> THEN 0 ELSE StatedCount(Head(entries)) + SumOfCounts(Tail(entries))

\* C9: after a successful SID query sid_counts has one entry per distinct
\* SIDType among the accounts, each stating the number of accounts of that
\* type, and the stated counts add up to the number of accounts.
C9_SidCountsAreExact ==
    Succeeded("SidCounts") =>
        LET accounts == frame.query["SidCounts"].value
            types    == {accounts[i].SIDType : i \in 1..Len(accounts)}
            Of(k)    == Cardinality({i \in 1..Len(accounts) : accounts[i].SIDType = k})
        IN  /\ Len(sid_counts) = Cardinality(types)
            /\ \A k \in types :
                  Cardinality({i \in 1..Len(sid_counts) :
                      sid_counts[i] = "Type " \o ToString(k) \o ": " \o ToString(Of(k))}) = 1
            /\ SumOfCounts(sid_counts) = Len(accounts)
            /\ accounts = <<>> => sid_counts = <<>>

\* C9 witness: several accounts of one SIDType are counted in one entry
C9_Witness ==
    /\ Succeeded("SidCounts")
    /\ Len(frame.query["SidCounts"].value) > 1
    /\ Len(sid_counts) = 1

\* C10: a selection or a list entry exists only with a connection, a
\* connection only with the COM library, and no click ever found the
\* connection absent.
C10_NothingWithoutConnection ==
    /\ (active_data # "None" \/ \E b \in ButtonSet : Lists[b] # <<>>) => wmi_con # None
    /\ wmi_con # None => com_lib # None
    /\ ~frame.unconnected

\* C10 witness: a click in the very frame that created the connection
C10_Witness ==
    /\ frame.init # None
    /\ frame.init[1].ok
    /\ frame.clicked # {}
    /\ active_data # "None"
    /\ wmi_con # None

====
